---- MODULE Spec2Model ----
(***************************************************************************)
(* The Streamlit quantum circuit simulator of src/app.py.                  *)
(*                                                                         *)
(* The program is one script that Streamlit reruns from top to bottom on   *)
(* every widget interaction.  What survives between reruns is the session  *)
(* state: num_qubits, circuit_data and selected_gate.  One rerun serves    *)
(* one interaction: the slider was moved, or exactly one button was        *)
(* pressed.  Each interaction is one action below.                         *)
(*                                                                         *)
(* Amplitudes are complex numbers of the ring Z[w, 1/sqrt 2], w =          *)
(* exp(i*pi/4), in which every matrix of the gate set has its entries.     *)
(* An element a + b*w + c*w^2 + d*w^3 is the tuple <<a, b, c, d>>; a state *)
(* vector carries one exponent k for the common factor 1/sqrt(2)^k.  The   *)
(* arithmetic is exact: the rounding of double precision is not modelled.  *)
(***************************************************************************)
EXTENDS Integers, Sequences, FiniteSets, TLC

VARIABLES num_qubits, circuit_data, selected_gate, call, outcome

vars == <<num_qubits, circuit_data, selected_gate, call, outcome>>

(***************************************************************************)
(* Program constants and model bounds.                                     *)
(***************************************************************************)
\* st.sidebar.slider('Number of Qubits', 1, 8, ...)
SliderMin == 1
SliderMax == 8
\* st.session_state.num_qubits = 2 on the first run
InitialQubits == 2

\* Bounds of the model: the qubit indices and times place_gate is called with, and the
\* session contents the handlers are run on in ExecSpec and SessionSpec.
PlaceIdxMax == 2
PlaceTimeMax == 1
ExecQubits == 2
ExecLen == 2
SessLen == 1

(***************************************************************************)
(* Complex arithmetic in Z[w], w^4 = -1.                                   *)
(***************************************************************************)
CZero == <<0, 0, 0, 0>>
COne == <<1, 0, 0, 0>>
CMinusOne == <<-1, 0, 0, 0>>
CI == <<0, 0, 1, 0>>
CMinusI == <<0, 0, -1, 0>>
COmega == <<0, 1, 0, 0>>

CAdd(x, y) == <<x[1] + y[1], x[2] + y[2], x[3] + y[3], x[4] + y[4]>>

CMul(x, y) ==
    << x[1] * y[1] - (x[2] * y[4] + x[3] * y[3] + x[4] * y[2]),
       x[1] * y[2] + x[2] * y[1] - (x[3] * y[4] + x[4] * y[3]),
       x[1] * y[3] + x[2] * y[2] + x[3] * y[1] - x[4] * y[4],
       x[1] * y[4] + x[2] * y[3] + x[3] * y[2] + x[4] * y[1] >>

\* complex conjugate: conj(w) = -w^3, conj(w^2) = -w^2, conj(w^3) = -w
CConj(x) == <<x[1], -x[4], -x[3], -x[2]>>

\* sqrt 2 = w - w^3, so x / sqrt 2 = x * (w - w^3) / 2
CTimesSqrt2(x) == CMul(x, <<0, 1, 0, -1>>)

CDivisibleBySqrt2(x) ==
    LET y == CTimesSqrt2(x) IN \A j \in 1..4 : y[j] % 2 = 0

CDivSqrt2(x) ==
    LET y == CTimesSqrt2(x) IN <<y[1] \div 2, y[2] \div 2, y[3] \div 2, y[4] \div 2>>

RECURSIVE Pow2(_)
Pow2(n) == IF n = 0 THEN 1 ELSE 2 * Pow2(n - 1)

(***************************************************************************)
(* State vectors: [k, v] stands for the amplitudes v[i] / sqrt(2)^k, i the *)
(* basis index.  Canon gives the representation with the least k, so that  *)
(* equal vectors are equal values.                                         *)
(***************************************************************************)
RECURSIVE Canon(_)
Canon(s) ==
    IF s.k > 0 /\ \A i \in DOMAIN s.v : CDivisibleBySqrt2(s.v[i])
    THEN Canon([k |-> s.k - 1, v |-> [i \in DOMAIN s.v |-> CDivSqrt2(s.v[i])]])
    ELSE s

\* QuantumCircuit(n): the register starts in |0...0>
ZeroState(n) ==
    [k |-> 0, v |-> [i \in 0..(Pow2(n) - 1) |-> IF i = 0 THEN COne ELSE CZero]]

(***************************************************************************)
(* The gate set.  A matrix is <<row 0, row 1>> with the common factor      *)
(* 1/sqrt(2)^e.                                                            *)
(***************************************************************************)
GateKinds == {"X", "Y", "Z", "H", "S", "T", "I", "CNOT"}
SingleKinds == GateKinds \ {"CNOT"}

HadamardUnscaled == [m |-> <<<<COne, COne>>, <<COne, CMinusOne>>>>, e |-> 0]

Hadamard == [m |-> <<<<COne, COne>>, <<COne, CMinusOne>>>>, e |-> 1]

GateMatrix(kind) ==
    CASE kind = "X" -> [m |-> <<<<CZero, COne>>, <<COne, CZero>>>>, e |-> 0]
      [] kind = "Y" -> [m |-> <<<<CZero, CMinusI>>, <<CI, CZero>>>>, e |-> 0]
      [] kind = "Z" -> [m |-> <<<<COne, CZero>>, <<CZero, CMinusOne>>>>, e |-> 0]
      [] kind = "H" -> Hadamard
      [] kind = "S" -> [m |-> <<<<COne, CZero>>, <<CZero, CI>>>>, e |-> 0]
      [] kind = "T" -> [m |-> <<<<COne, CZero>>, <<CZero, COmega>>>>, e |-> 0]
      [] kind = "I" -> [m |-> <<<<COne, CZero>>, <<CZero, COne>>>>, e |-> 0]

(***************************************************************************)
(* Gate application.  Qiskit numbers the qubits from the least significant *)
(* bit of the basis index: qubit q is bit q.                               *)
(***************************************************************************)
QubitBitBigEndian(n, q) == n - 1 - q

QubitBit(n, q) == q

BitAt(i, p) == (i \div Pow2(p)) % 2

\* the index i with bit p set to b
WithBit(i, p, b) == i - BitAt(i, p) * Pow2(p) + b * Pow2(p)

\* qc.x(q), qc.h(q), ...: the 2x2 matrix u on qubit q of an n-qubit register
ApplySingle(s, n, q, u) ==
    LET p == QubitBit(n, q) IN
    Canon([k |-> s.k + u.e,
           v |-> [i \in DOMAIN s.v |->
                    CAdd(CMul(u.m[BitAt(i, p) + 1][1], s.v[WithBit(i, p, 0)]),
                         CMul(u.m[BitAt(i, p) + 1][2], s.v[WithBit(i, p, 1)]))]])

ApplyCXSwapped(s, n, control, target) ==
    LET pc == QubitBit(n, target)
        pt == QubitBit(n, control) IN
    [k |-> s.k,
     v |-> [i \in DOMAIN s.v |->
              IF BitAt(i, pc) = 1 THEN s.v[WithBit(i, pt, 1 - BitAt(i, pt))]
              ELSE s.v[i]]]

\* qc.cx(control, target)
ApplyCX(s, n, control, target) ==
    LET pc == QubitBit(n, control)
        pt == QubitBit(n, target) IN
    [k |-> s.k,
     v |-> [i \in DOMAIN s.v |->
              IF BitAt(i, pc) = 1 THEN s.v[WithBit(i, pt, 1 - BitAt(i, pt))]
              ELSE s.v[i]]]

\* one iteration of the gate loop on an accepted placement
ApplyPlacement(s, n, g) ==
    IF g.type = "CNOT" THEN ApplyCX(s, n, g.qubit, g.target)
    ELSE ApplySingle(s, n, g.qubit, GateMatrix(g.type))

\* a qubit argument Qiskit refuses with CircuitError: an index out of the
\* register, or the same qubit twice in cx
Refused(n, g) ==
    \/ g.qubit >= n
    \/ g.type = "CNOT" /\ (g.target >= n \/ g.target = g.qubit)

(***************************************************************************)
(* Session contents.  A placement is one dict of circuit_data: 'type',     *)
(* 'qubit' and, for CNOT, 'target' (-1 stands for the absent key).         *)
(***************************************************************************)
Single(kind, q) == [type |-> kind, qubit |-> q, target |-> -1]
Cnot(c, t) == [type |-> "CNOT", qubit |-> c, target |-> t]

\* the placements that are well formed for n qubits
Placements(n) ==
    {Single(kind, q) : kind \in SingleKinds, q \in 0..(n - 1)}
    \cup {Cnot(c, t) : <<c, t>> \in {x \in (0..(n - 1)) \X (0..(n - 1)) : x[1] # x[2]}}

Circuits(n, maxLen) == UNION {[1..m -> Placements(n)] : m \in 0..maxLen}

(***************************************************************************)
(* What one rerun shows below the circuit: nothing, the warning, the state *)
(* vector (with the states the register went through, trace[j + 1] after   *)
(* the j-th gate), or the exception of the gate loop.  applied counts the  *)
(* placements the loop handed to the circuit.                              *)
(***************************************************************************)
NoOutcome == [kind |-> "none", applied |-> 0, trace |-> <<>>]
Warning == [kind |-> "warning", applied |-> 0, trace |-> <<>>]
CircuitError(j) == [kind |-> "CircuitError", applied |-> j - 1, trace |-> <<>>]
StateVectorOf(t) == [kind |-> "statevector", applied |-> Len(t) - 1, trace |-> t]

Reverse(seq) == [j \in 1..Len(seq) |-> seq[Len(seq) + 1 - j]]

\* for gate in circuit_data: ... ; then the simulation of the circuit built
RECURSIVE LoopOver(_, _)
LoopOver(n, circ) ==
    IF circ = <<>> THEN <<ZeroState(n)>>
    ELSE LET before == LoopOver(n, SubSeq(circ, 1, Len(circ) - 1)) IN
         Append(before, ApplyPlacement(before[Len(before)], n, circ[Len(circ)]))

GateLoopReversed(n, circ) == LoopOver(n, Reverse(circ))

GateLoop(n, circ) == LoopOver(n, circ)

FirstRefused(n, circ) ==
    LET bad == {j \in 1..Len(circ) : Refused(n, circ[j])} IN
    IF bad = {} THEN 0 ELSE CHOOSE j \in bad : \A m \in bad : j <= m

\* the else branch of the Execute handler
Simulate(n, circ) ==
    IF FirstRefused(n, circ) # 0 THEN CircuitError(FirstRefused(n, circ))
    ELSE StateVectorOf(GateLoop(n, circ))

(***************************************************************************)
(* The handlers.  call records the interaction the last rerun served.      *)
(***************************************************************************)
Init ==
    /\ num_qubits = InitialQubits
    /\ circuit_data = <<>>
    /\ selected_gate = "unset"
    /\ call = [op |-> "init", arg |-> 0]
    /\ outcome = NoOutcome

SliderUnclamped ==
    \E n \in SliderMin..(SliderMax + 1) :
        /\ n # num_qubits
        /\ num_qubits' = n
        /\ call' = [op |-> "slider", arg |-> n]
        /\ outcome' = NoOutcome
        /\ UNCHANGED <<circuit_data, selected_gate>>

\* the slider is moved to n
Slider ==
    \E n \in SliderMin..SliderMax :
        /\ n # num_qubits
        /\ num_qubits' = n
        /\ call' = [op |-> "slider", arg |-> n]
        /\ outcome' = NoOutcome
        /\ UNCHANGED <<circuit_data, selected_gate>>

ResetCircuitKeeps ==
    /\ call' = [op |-> "reset", arg |-> Len(circuit_data)]
    /\ outcome' = NoOutcome
    /\ UNCHANGED <<num_qubits, circuit_data, selected_gate>>

\* 'Reset Circuit'; arg records how many placements the circuit held
ResetCircuit ==
    /\ circuit_data' = <<>>
    /\ call' = [op |-> "reset", arg |-> Len(circuit_data)]
    /\ outcome' = NoOutcome
    /\ UNCHANGED <<num_qubits, selected_gate>>

\* one button of the gate palette
Palette ==
    \E gate_name \in GateKinds :
        /\ selected_gate' = gate_name
        /\ call' = [op |-> "palette", arg |-> 0]
        /\ outcome' = NoOutcome
        /\ UNCHANGED <<num_qubits, circuit_data>>

PlaceGateAppends ==
    \E qubit \in 0..PlaceIdxMax, time \in 0..PlaceTimeMax, gate_type \in SingleKinds :
        /\ circuit_data' = Append(circuit_data, Single(gate_type, qubit))
        /\ call' = [op |-> "place_gate", arg |-> qubit]
        /\ outcome' = NoOutcome
        /\ UNCHANGED <<num_qubits, selected_gate>>

\* def place_gate(qubit, time, gate_type): pass
PlaceGate ==
    \E qubit \in 0..PlaceIdxMax, time \in 0..PlaceTimeMax, gate_type \in GateKinds :
        /\ call' = [op |-> "place_gate", arg |-> qubit]
        /\ outcome' = NoOutcome
        /\ UNCHANGED <<num_qubits, circuit_data, selected_gate>>

ExecuteCircuitUnguarded ==
    /\ call' = [op |-> "execute", arg |-> 0]
    /\ outcome' = Simulate(num_qubits, circuit_data)
    /\ UNCHANGED <<num_qubits, circuit_data, selected_gate>>

\* 'Execute Circuit'
ExecuteCircuit ==
    /\ call' = [op |-> "execute", arg |-> 0]
    /\ outcome' = IF circuit_data = <<>> THEN Warning
                  ELSE Simulate(num_qubits, circuit_data)
    /\ UNCHANGED <<num_qubits, circuit_data, selected_gate>>

Next == Slider \/ ResetCircuit \/ Palette \/ PlaceGate \/ ExecuteCircuit

\* the program
Spec == Init /\ [][Next]_vars

\* the handlers on every session content of at most SessLen placements that
\* is well formed for the initial qubit count
SessionInit ==
    /\ num_qubits = InitialQubits
    /\ circuit_data \in Circuits(InitialQubits, SessLen)
    /\ selected_gate = "unset"
    /\ call = [op |-> "init", arg |-> 0]
    /\ outcome = NoOutcome

SessionSpec == SessionInit /\ [][Next]_vars

\* the Execute handler as a function of the session contents: every well
\* formed circuit of at most ExecLen placements on at most ExecQubits qubits
ExecInit ==
    /\ num_qubits \in SliderMin..ExecQubits
    /\ circuit_data \in Circuits(num_qubits, ExecLen)
    /\ selected_gate = "unset"
    /\ call = [op |-> "init", arg |-> 0]
    /\ outcome = NoOutcome

ExecNext == ExecuteCircuit

ExecSpec == ExecInit /\ [][ExecNext]_vars

(***************************************************************************)
(* Properties.                                                             *)
(***************************************************************************)
Executed == call.op = "execute"
Returned == outcome.kind = "statevector"
\* the state vector the run returned
Final == outcome.trace[Len(outcome.trace)]

\* the basis state |b> of n qubits: amplitude 1 at index b, 0 elsewhere
Basis(n, b) == [k |-> 0, v |-> [i \in 0..(Pow2(n) - 1) |-> IF i = b THEN COne ELSE CZero]]

IsPrefix(a, b) == Len(a) <= Len(b) /\ SubSeq(b, 1, Len(a)) = a

RECURSIVE SumSquares(_, _)
\* the sum of |v[i]|^2 over the indices below m, as an element of Z[w]
SumSquares(v, m) ==
    IF m = 0 THEN CZero
    ELSE CAdd(SumSquares(v, m - 1), CMul(v[m - 1], CConj(v[m - 1])))

\* the amplitudes v[i] / sqrt(2)^k have squared magnitudes that sum to 1
Normalized(s) == SumSquares(s.v, Cardinality(DOMAIN s.v)) = <<Pow2(s.k), 0, 0, 0>>

\* C1 as stated: executing the empty circuit returns the state vector of
\* length 2^N with amplitude 1 at index 0 and 0 elsewhere.
C1_EmptyExecuteReturnsZeroState ==
    (Executed /\ circuit_data = <<>>) =>
        (Returned /\ Final = Basis(num_qubits, 0))

\* C1 amended: executing the empty circuit ends with the warning and returns
\* no state vector, for every qubit count.
C1_EmptyExecuteWarns ==
    (Executed /\ circuit_data = <<>>) =>
        (outcome.kind = "warning" /\ outcome.trace = <<>>)

C1_Witness ==
    Executed /\ circuit_data = <<>> /\ num_qubits = 3 /\ outcome.kind = "warning"

C5_OverflowOrStateVector ==
    Executed =>
        \/ outcome.kind = "DimensionOverflow" /\ outcome.applied = 0
        \/ Returned /\ outcome.applied = Len(circuit_data)

\* C5 amended: an execute either ends with the empty-circuit warning before
\* any gate was applied, or applies every placement and returns a state
\* vector; it never stops part way and never with another error.
C5_WarningOrStateVector ==
    Executed =>
        \/ outcome.kind = "warning" /\ outcome.applied = 0
        \/ Returned /\ outcome.applied = Len(circuit_data)

C5_Witness ==
    Executed /\ outcome.kind = "warning" /\ outcome.applied = 0 /\ num_qubits = SliderMax

C7_AlwaysNormalized ==
    Returned => \A j \in 1..Len(outcome.trace) : Normalized(outcome.trace[j])

C7_Witness ==
    /\ Returned
    /\ Final.k = 1
    /\ \E i \in DOMAIN Final.v : Final.v[i] = COmega
    /\ Normalized(Final)

\* C8: H on qubit 0 then CNOT(0, 1) on two qubits returns the Bell state:
\* amplitude 1/sqrt(2) at indices 0 and 3, amplitude 0 at indices 1 and 2.
C8_BellState ==
    (Executed /\ num_qubits = 2 /\ circuit_data = <<Single("H", 0), Cnot(0, 1)>>) =>
        /\ Returned
        /\ Final = [k |-> 1, v |-> [i \in 0..3 |-> IF i \in {0, 3} THEN COne ELSE CZero]]

C8_Witness ==
    /\ Executed /\ Returned /\ num_qubits = 2
    /\ circuit_data = <<Single("H", 0), Cnot(0, 1)>>
    /\ Final.k = 1 /\ Final.v[3] = COne

\* C9: qubit i is bit i of the basis index: X on qubit 0 of |00> returns
\* amplitude 1 at index 1, and a CNOT(c, t) moves the amplitude of each index
\* to the index with bit t flipped exactly when bit c is 1.
C9_LittleEndian ==
    /\ (Executed /\ num_qubits = 2 /\ circuit_data = <<Single("X", 0)>>) =>
          (Returned /\ Final = Basis(2, 1))
    /\ Returned =>
          \A j \in 1..Len(circuit_data) :
              circuit_data[j].type = "CNOT" =>
                  LET c == circuit_data[j].qubit
                      t == circuit_data[j].target
                      before == outcome.trace[j]
                      after == outcome.trace[j + 1]
                      Moved(i) ==
                          IF (i \div Pow2(c)) % 2 = 0 THEN i
                          ELSE IF (i \div Pow2(t)) % 2 = 0 THEN i + Pow2(t)
                          ELSE i - Pow2(t)
                  IN  /\ after.k = before.k
                      /\ \A i \in DOMAIN before.v : after.v[Moved(i)] = before.v[i]

C9_Witness ==
    /\ Executed /\ Returned /\ num_qubits = 2
    /\ circuit_data = <<Single("X", 0), Cnot(0, 1)>>
    /\ Final = Basis(2, 3)

\* C10: execute starts from |0...0> of the current qubit count and applies
\* the placements in list order, a CNOT as cx(qubit, target) and every other
\* placement as the gate of its kind on its qubit; the returned state is the
\* last of that fold, and execute leaves the placements and the qubit count
\* unchanged.
C10_FoldInListOrder ==
    [][call'.op = "execute" =>
          /\ circuit_data' = circuit_data
          /\ num_qubits' = num_qubits
          /\ outcome'.kind = "statevector" =>
                /\ Len(outcome'.trace) = Len(circuit_data) + 1
                /\ outcome'.trace[1] = Basis(num_qubits, 0)
                /\ \A j \in 1..Len(circuit_data) :
                      outcome'.trace[j + 1] =
                          IF circuit_data[j].type = "CNOT"
                          THEN ApplyCX(outcome'.trace[j], num_qubits,
                                       circuit_data[j].qubit, circuit_data[j].target)
                          ELSE ApplySingle(outcome'.trace[j], num_qubits,
                                           circuit_data[j].qubit,
                                           GateMatrix(circuit_data[j].type))]_vars

C10_Witness ==
    /\ Executed /\ Returned /\ num_qubits = 1
    /\ circuit_data = <<Single("X", 0), Single("H", 0)>>
    /\ Final = [k |-> 1, v |-> [i \in 0..1 |-> IF i = 0 THEN COne ELSE CMinusOne]]

====
